---- MODULE Spec2Model ----
(***************************************************************************)
(* Semantic memory store of gemini_semantic_memory: the embedding cache    *)
(* (core/embedding_service.py), the vector index calls, the session        *)
(* registry with its sessions.json snapshot and the retention clean-up     *)
(* (core/memory_manager.py), and the chat turn that stores two records     *)
(* concurrently (main.py).                                                 *)
(*                                                                         *)
(* Representation.                                                         *)
(*   - A datetime is a number of clock ticks; TicksPerSec ticks make one   *)
(*     second, so a tick that is not a multiple of TicksPerSec has a       *)
(*     non-zero sub-second part.  All datetimes are naive (datetime.now()).*)
(*   - A text is a sequence of characters.                                 *)
(*   - An Optional value is a sequence of length 0 (None) or 1.            *)
(*   - Vector components are fixed-point numbers with 10 for 1.0, and      *)
(*     distances, similarities and thresholds are in hundredths.           *)
(*   - importance_score is in tenths.                                      *)
(***************************************************************************)
EXTENDS Integers, Sequences, FiniteSets, TLC

\* ------------------------------------------------------------------ bounds
\* the clock stops at MaxNow (at MaxRegistryNow where the registry is checked,
\* at MaxFilterNow where the filters of retrieval are)
MaxNow == 2
MaxRegistryNow == 1
MaxFilterNow == 2
\* record ids are handed out up to MaxRecords (MaxRegistryStores where the
\* registry is checked, MaxQueryRecords where retrieval is)
MaxRecords == 3
MaxRegistryStores == 2
MaxQueryRecords == 2
\* settings.max_cache_size, scaled down so that the cache fills
MaxCacheSize == 2
\* the model is loaded at most MaxLoads times by one service
MaxLoads == 2
\* a batch of embed_batch holds at most MaxBatch texts
MaxBatch == 3
\* resolution of the clock and length of a day
TicksPerSec == 2
SecsPerDay == 1

\* ------------------------------------------------------- program constants
\* settings.similarity_threshold = 0.7, in hundredths
DefaultSimilarityThreshold == 70
\* settings.top_k_results
DefaultTopK == 10
\* n_results of the clean-up scan
CleanupNResults == 1000
\* importance threshold of the clean-up, 0.3 in tenths
CleanupImportance == 3
\* MemoryRecord.importance_score default 0.5, in tenths
DefaultImportance == 5
\* the store_memory calls one chat turn issues together
StoresPerTurn == 2

\* ------------------------------------------------------------ input domains
SessionIds == {"s1", "s2"}
Titles == {"t1", "t2"}
Tasks == 1..StoresPerTurn

None == <<>>
Some(x) == <<x>>

TextA == <<"a">>
TextB == <<"b">>
TextAB == <<"a", "b">>
TextBlank == <<" ">>
TextEmpty == <<>>
StoreTexts == {TextA, TextB, TextAB, TextBlank}

\* ------------------------------------------------------------------ strings
IsSpace(c) == c = " "

RECURSIVE LStrip(_)
LStrip(s) == IF s # <<>> /\ IsSpace(Head(s)) THEN LStrip(Tail(s)) ELSE s

RECURSIVE RStrip(_)
RStrip(s) ==
    IF s # <<>> /\ IsSpace(s[Len(s)]) THEN RStrip(SubSeq(s, 1, Len(s) - 1)) ELSE s

\* str.strip()
Strip(s) == RStrip(LStrip(s))

Ord(c) == CASE c = "a" -> 97 [] c = "b" -> 98 [] c = " " -> 32 [] OTHER -> 0

RECURSIVE HashFrom(_, _)
HashFrom(h, s) ==
    IF s = <<>> THEN h ELSE HashFrom((h * 31 + Ord(Head(s))) % 65536, Tail(s))

\* hash(text): the cache key of embed_text
Hash(s) == HashFrom(7, s)

\* ---------------------------------------------------------------- datetimes
\* timedelta(days = d), in ticks
Days(d) == d * SecsPerDay * TicksPerSec

\* The text of a datetime: whole seconds, then the sub-second part, which both
\* str() and isoformat() leave out when it is zero; sep is the character
\* between date and time.
DatetimeText(t, sep) ==
    [sep |-> sep,
     sec |-> t \div TicksPerSec,
     frac |-> IF t % TicksPerSec = 0 THEN <<>> ELSE <<t % TicksPerSec>>]

\* datetime.isoformat()
IsoFormat(t) == DatetimeText(t, "T")

\* a str() that stops at the seconds
StrDatetimeSeconds(t) == [DatetimeText(t, " ") EXCEPT !.frac = <<>>]

\* str(datetime), what json.dump(default=str) writes
StrDatetime(t) == DatetimeText(t, " ")

\* datetime parsing (pydantic / datetime.fromisoformat): either separator,
\* optional sub-second part
ParseDatetime(s) ==
    s.sec * TicksPerSec + (IF s.frac = <<>> THEN 0 ELSE s.frac[1])

\* a < b on two texts of datetimes, compared as strings: the fields are of
\* fixed width, and a text that stops after the seconds is a proper prefix of
\* one that goes on
TextLess(a, b) ==
    \/ a.sec < b.sec
    \/ /\ a.sec = b.sec
       /\ \/ a.frac = <<>> /\ b.frac # <<>>
          \/ a.frac # <<>> /\ b.frac # <<>> /\ a.frac[1] < b.frac[1]

TextLeq(a, b) == TextLess(a, b) \/ (a.sec = b.sec /\ a.frac = b.frac)

\* ----------------------------------------------------------------- sessions
\* ConversationSession(session_id, title, description, persona_id): the other
\* fields take their defaults, the two datetimes from datetime.now()
NewSession(sid, title, description, persona_id, t) ==
    [session_id |-> sid,
     title |-> title,
     description |-> description,
     created_at |-> t,
     last_activity |-> t,
     message_count |-> 0,
     total_tokens |-> 0,
     project_tags |-> <<>>,
     persona_id |-> persona_id,
     is_active |-> TRUE,
     auto_resume |-> TRUE]

\* the registry of a fresh MemoryManager: self.sessions = {}
EmptyRegistry == [s \in {} |-> NewSession(s, "", None, None, 0)]

\* an entry written without its message_count, which then loads as the default
DumpSessionNoCount(session) ==
    [session_id |-> session.session_id,
     title |-> session.title,
     description |-> session.description,
     created_at |-> StrDatetime(session.created_at),
     last_activity |-> StrDatetime(session.last_activity),
     message_count |-> 0,
     total_tokens |-> session.total_tokens,
     project_tags |-> session.project_tags,
     persona_id |-> session.persona_id,
     is_active |-> session.is_active,
     auto_resume |-> session.auto_resume]

\* One entry of sessions.json: session.dict() written by json.dump. Strings,
\* numbers, booleans, lists and None have a JSON form of their own; a
\* datetime has none and is written as str(datetime).
DumpSession(session) ==
    [session_id |-> session.session_id,
     title |-> session.title,
     description |-> session.description,
     created_at |-> StrDatetime(session.created_at),
     last_activity |-> StrDatetime(session.last_activity),
     message_count |-> session.message_count,
     total_tokens |-> session.total_tokens,
     project_tags |-> session.project_tags,
     persona_id |-> session.persona_id,
     is_active |-> session.is_active,
     auto_resume |-> session.auto_resume]

\* ConversationSession(**data) on one entry of the file: the two datetime
\* fields are parsed from their text
LoadSession(data) ==
    [session_id |-> data.session_id,
     title |-> data.title,
     description |-> data.description,
     created_at |-> ParseDatetime(data.created_at),
     last_activity |-> ParseDatetime(data.last_activity),
     message_count |-> data.message_count,
     total_tokens |-> data.total_tokens,
     project_tags |-> data.project_tags,
     persona_id |-> data.persona_id,
     is_active |-> data.is_active,
     auto_resume |-> data.auto_resume]

\* The session file: missing, a JSON document, or a file cut short by a write
\* that failed after open(..., "w") had truncated it.
NoDoc == [s \in {} |-> DumpSession(NewSession(s, "", None, None, 0))]
MissingFile == [kind |-> "missing", doc |-> NoDoc]
TruncatedFile == [kind |-> "truncated", doc |-> NoDoc]
JsonFile(doc) == [kind |-> "json", doc |-> doc]

\* what can happen to one write of the file
SaveFaults == {"ok", "open_fails", "dump_fails"}

\* _save_sessions: the whole registry is written; every exception is caught
\* and logged, so the caller sees no difference. fault is what the file
\* system does: "open_fails" leaves the file as it was, "dump_fails" leaves
\* the truncated file.
SaveSessions(registry, file, fault) ==
    CASE fault = "ok" ->
           JsonFile([s \in DOMAIN registry |-> DumpSession(registry[s])])
      [] fault = "open_fails" -> file
      [] OTHER -> TruncatedFile

\* ConversationSession(**data) validates: session_id and title are required,
\* every other field has a default
Loadable(data) == {"session_id", "title"} \subseteq DOMAIN data

\* an entry of the file that has lost everything but its id
Stripped(data) == [session_id |-> data.session_id]

\* a restore that keeps the entries that load and skips the others
RestoreSessionsPartial(registry, file) ==
    IF file.kind = "json"
    THEN [s \in {x \in DOMAIN file.doc : Loadable(file.doc[x])} |-> LoadSession(file.doc[s])]
    ELSE registry

\* _restore_sessions: the registry is replaced only when the file exists and
\* every entry loads; a missing file or any exception leaves it as it was.
RestoreSessions(registry, file) ==
    IF file.kind = "json" /\ \A s \in DOMAIN file.doc : Loadable(file.doc[s])
    THEN [s \in DOMAIN file.doc |-> LoadSession(file.doc[s])]
    ELSE registry

\* an update that stamps the activity and leaves the count
RecordActivityNoCount(registry, sid, t) ==
    [registry EXCEPT ![sid].last_activity = t]

\* an update that makes the session active again
RecordActivityReactivates(registry, sid, t) ==
    [registry EXCEPT ![sid].message_count = @ + 1, ![sid].last_activity = t,
                     ![sid].is_active = TRUE]

\* _update_session_stats, lines 275-277: the two assignments made before the
\* registry is saved
RecordActivity(registry, sid, t) ==
    [registry EXCEPT ![sid].message_count = @ + 1, ![sid].last_activity = t]

\* list.sort(key = last_activity, reverse = True), a stable sort: x goes
\* behind the sessions of sorted that are at least as recent
InsertByActivity(sorted, x) ==
    LET k == Cardinality({i \in 1..Len(sorted) :
                             sorted[i].last_activity >= x.last_activity})
    IN SubSeq(sorted, 1, k) \o <<x>> \o SubSeq(sorted, k + 1, Len(sorted))

RECURSIVE SortByActivity(_)
SortByActivity(seq) ==
    IF seq = <<>> THEN <<>>
    ELSE InsertByActivity(SortByActivity(SubSeq(seq, 1, Len(seq) - 1)), seq[Len(seq)])

\* the orders in which a dict with the keys of registry can hold them
KeyOrders(registry) ==
    {f \in [1..Cardinality(DOMAIN registry) -> DOMAIN registry] :
        \A i, j \in DOMAIN f : f[i] = f[j] => i = j}

\* a listing that is filtered and left in the order of the dict
ListSessionsUnsorted(registry, order, active_only) ==
    LET values == [k \in 1..Len(order) |-> registry[order[k]]]
    IN IF active_only THEN SelectSeq(values, LAMBDA x : x.is_active) ELSE values

\* list_sessions(active_only): the values of the registry in the order of the
\* dict, the inactive ones left out when active_only, sorted by last_activity,
\* most recent first
ListSessions(registry, order, active_only) ==
    LET values == [k \in 1..Len(order) |-> registry[order[k]]]
    IN SortByActivity(IF active_only
                      THEN SelectSeq(values, LAMBDA x : x.is_active)
                      ELSE values)

\* ---------------------------------------------------------------- embedding
\* EmbeddingService.__init__: no model yet; loads counts the times this
\* instance has built its SentenceTransformer
NewService == [model |-> "none", loads |-> 0]

\* EmbeddingService.initialize: the model is built and assigned whatever
\* self.model holds; fails is whether building it raises, and then the
\* exception is logged and raised again with self.model as it was
InitializeService(svc, fails) ==
    IF fails
    THEN [outcome |-> "raise", service |-> svc]
    ELSE [outcome |-> "ok", service |-> [model |-> "loaded", loads |-> svc.loads + 1]]

\* the service of a process whose startup has run initialize()
StartedService == InitializeService(NewService, FALSE).service

\* _embed_with_sentence_transformers, lines 123-124: the provider path
\* initializes a service that has no model
LazyInitialize(svc, invoked) ==
    IF invoked /\ svc.model = "none" THEN InitializeService(svc, FALSE).service ELSE svc

\* What the underlying model returns for a text (model.encode, not normalized)
RawEmbedding(text) ==
    CASE text = TextA -> <<6, 8>>
      [] text = TextB -> <<16, 12>>
      [] text = TextAB -> <<20, 0>>
      [] OTHER -> <<0, 10>>

RECURSIVE SumSq(_)
SumSq(v) == IF v = <<>> THEN 0 ELSE Head(v) * Head(v) + SumSq(Tail(v))

RECURSIVE SumAbs(_)
SumAbs(v) ==
    IF v = <<>> THEN 0 ELSE (IF Head(v) < 0 THEN -Head(v) ELSE Head(v)) + SumAbs(Tail(v))

\* np.linalg.norm in fixed point (the vectors used here have whole norms)
VecNorm(v) ==
    CHOOSE n \in 0..SumAbs(v) : n * n <= SumSq(v) /\ (n + 1) * (n + 1) > SumSq(v)

\* _normalize_vector: the zero vector is returned as it is
NormalizeVector(v) ==
    IF VecNorm(v) = 0 THEN v ELSE [i \in DOMAIN v |-> (v[i] * 10) \div VecNorm(v)]

CachePut(cache, key, vec) ==
    [k \in DOMAIN cache \cup {key} |-> IF k = key THEN vec ELSE cache[k]]

\* an embed_text that rejects the empty text only
EmbedTextEmptyOnly(cache, text, providerFails) ==
    IF text = <<>>
    THEN [outcome |-> "raise", vec |-> <<>>, invoked |-> FALSE, cache |-> cache]
    ELSE IF Hash(text) \in DOMAIN cache
    THEN [outcome |-> "ok", vec |-> cache[Hash(text)], invoked |-> FALSE, cache |-> cache]
    ELSE IF providerFails
    THEN [outcome |-> "raise", vec |-> <<>>, invoked |-> TRUE, cache |-> cache]
    ELSE [outcome |-> "ok",
          vec |-> NormalizeVector(RawEmbedding(text)),
          invoked |-> TRUE,
          cache |-> IF Cardinality(DOMAIN cache) < MaxCacheSize
                    THEN CachePut(cache, Hash(text), NormalizeVector(RawEmbedding(text)))
                    ELSE cache]

\* an embed_text that caches the vector as the provider returned it
EmbedTextCachesRaw(cache, text, providerFails) ==
    IF Strip(text) = <<>>
    THEN [outcome |-> "raise", vec |-> <<>>, invoked |-> FALSE, cache |-> cache]
    ELSE IF Hash(text) \in DOMAIN cache
    THEN [outcome |-> "ok", vec |-> cache[Hash(text)], invoked |-> FALSE, cache |-> cache]
    ELSE IF providerFails
    THEN [outcome |-> "raise", vec |-> <<>>, invoked |-> TRUE, cache |-> cache]
    ELSE [outcome |-> "ok",
          vec |-> NormalizeVector(RawEmbedding(text)),
          invoked |-> TRUE,
          cache |-> IF Cardinality(DOMAIN cache) < MaxCacheSize
                    THEN CachePut(cache, Hash(text), RawEmbedding(text))
                    ELSE cache]

\* an embed_text whose capacity test lets a cache of max_cache_size entries
\* take one more
EmbedTextCachesOneMore(cache, text, providerFails) ==
    IF Strip(text) = <<>>
    THEN [outcome |-> "raise", vec |-> <<>>, invoked |-> FALSE, cache |-> cache]
    ELSE IF Hash(text) \in DOMAIN cache
    THEN [outcome |-> "ok", vec |-> cache[Hash(text)], invoked |-> FALSE, cache |-> cache]
    ELSE IF providerFails
    THEN [outcome |-> "raise", vec |-> <<>>, invoked |-> TRUE, cache |-> cache]
    ELSE [outcome |-> "ok",
          vec |-> NormalizeVector(RawEmbedding(text)),
          invoked |-> TRUE,
          cache |-> IF Cardinality(DOMAIN cache) <= MaxCacheSize
                    THEN CachePut(cache, Hash(text), NormalizeVector(RawEmbedding(text)))
                    ELSE cache]

\* embed_text(text) on a cache; providerFails is whether the underlying model
\* or API raises when it is called. The result says how the call ended, the
\* vector returned, whether the provider was called, and the cache afterwards.
EmbedText(cache, text, providerFails) ==
    IF Strip(text) = <<>>
    THEN [outcome |-> "raise", vec |-> <<>>, invoked |-> FALSE, cache |-> cache]
    ELSE IF Hash(text) \in DOMAIN cache
    THEN [outcome |-> "ok", vec |-> cache[Hash(text)], invoked |-> FALSE, cache |-> cache]
    ELSE IF providerFails
    THEN [outcome |-> "raise", vec |-> <<>>, invoked |-> TRUE, cache |-> cache]
    ELSE [outcome |-> "ok",
          vec |-> NormalizeVector(RawEmbedding(text)),
          invoked |-> TRUE,
          cache |-> IF Cardinality(DOMAIN cache) < MaxCacheSize
                    THEN CachePut(cache, Hash(text), NormalizeVector(RawEmbedding(text)))
                    ELSE cache]

EmptyCache == [k \in {} |-> <<>>]

\* an embed_batch that embeds every entry, blank or not
EmbedBatchUnfiltered(svc, texts, providerFails) ==
    IF texts = <<>> THEN [outcome |-> "ok", vectors |-> <<>>]
    ELSE IF svc.model = "none" \/ providerFails
    THEN [outcome |-> "raise", vectors |-> <<>>]
    ELSE [outcome |-> "ok",
          vectors |-> [k \in 1..Len(texts) |-> NormalizeVector(RawEmbedding(texts[k]))]]

\* embed_batch(texts): an empty list is answered at once; the entries that
\* strip to nothing are dropped and the rest is encoded in one call of the
\* model, each vector normalized. The cache is neither read nor written. A
\* service without a model raises (self.model is None), as does a provider
\* that fails; the exception is logged and raised again.
EmbedBatch(svc, texts, providerFails) ==
    LET valid_texts == SelectSeq(texts, LAMBDA t : Strip(t) # <<>>)
    IN IF texts = <<>> THEN [outcome |-> "ok", vectors |-> <<>>]
       ELSE IF svc.model = "none" \/ providerFails
       THEN [outcome |-> "raise", vectors |-> <<>>]
       ELSE [outcome |-> "ok",
             vectors |-> [k \in 1..Len(valid_texts) |->
                             NormalizeVector(RawEmbedding(valid_texts[k]))]]

\* -------------------------------------------------------------------- index
\* ",".join(list)
RECURSIVE JoinComma(_)
JoinComma(list) ==
    IF list = <<>> THEN <<>>
    ELSE IF Len(list) = 1 THEN list[1]
    ELSE list[1] \o <<",">> \o JoinComma(Tail(list))

\* text.split(","): the pieces between the commas, empty ones as well
RECURSIVE SplitComma(_)
SplitComma(text) ==
    IF \A p \in 1..Len(text) : text[p] # ","
    THEN <<text>>
    ELSE LET p == CHOOSE q \in 1..Len(text) :
                     text[q] = "," /\ \A r \in 1..(q - 1) : text[r] # ","
         IN <<SubSeq(text, 1, p - 1)>> \o SplitComma(SubSeq(text, p + 1, Len(text)))

\* metadata[key].split(",") if metadata[key] else []
ListOfMetadata(text) == IF text = <<>> THEN <<>> ELSE SplitComma(text)

\* context or "": None and the empty text are written as the empty text
ContextOrEmpty(context) ==
    IF context = None \/ context[1] = <<>> THEN <<>> ELSE context[1]

\* The metadata map store_memory writes for a record
Metadata(memory) ==
    [session_id |-> memory.session_id,
     speaker |-> memory.speaker,
     timestamp |-> IsoFormat(memory.timestamp),
     importance_score |-> memory.importance_score,
     topics |-> JoinComma(memory.topics),
     keywords |-> JoinComma(memory.keywords),
     project_context |-> ContextOrEmpty(memory.project_context),
     persona_context |-> ContextOrEmpty(memory.persona_context)]

\* collection.add of one record
IndexAdd(index, memory) ==
    [i \in DOMAIN index \cup {memory.id} |->
        IF i = memory.id
        THEN [embedding |-> memory.embedding[1],
              document |-> memory.text,
              metadata |-> Metadata(memory)]
        ELSE index[i]]

\* collection.delete(ids)
IndexDelete(index, ids) == [i \in DOMAIN index \ ids |-> index[i]]

EmptyIndex == [i \in {} |-> 0]

\* distance of the collection's space (squared L2, the default of a
\* collection made without metadata), in hundredths
RECURSIVE Distance(_, _)
Distance(a, b) ==
    IF a = <<>> \/ b = <<>> THEN 0
    ELSE (Head(a) - Head(b)) * (Head(a) - Head(b)) + Distance(Tail(a), Tail(b))

\* a where clause: an exact session_id, and bounds on the timestamp text
NoWhere == [session_id |-> None, gte |-> None, lte |-> None, lt |-> None]

Matches(metadata, where) ==
    /\ where.session_id = None \/ metadata.session_id = where.session_id[1]
    /\ where.gte = None \/ TextLeq(where.gte[1], metadata.timestamp)
    /\ where.lte = None \/ TextLeq(metadata.timestamp, where.lte[1])
    /\ where.lt = None \/ TextLess(metadata.timestamp, where.lt[1])

\* the ids of S, nearest to the query vector first (ties by id)
RECURSIVE Nearest(_, _, _)
Nearest(index, S, q) ==
    IF S = {} THEN <<>>
    ELSE LET m == CHOOSE i \in S : \A j \in S :
                      \/ Distance(index[i].embedding, q) < Distance(index[j].embedding, q)
                      \/ /\ Distance(index[i].embedding, q) = Distance(index[j].embedding, q)
                         /\ i <= j
         IN <<m>> \o Nearest(index, S \ {m}, q)

Take(seq, n) == SubSeq(seq, 1, IF Len(seq) < n THEN Len(seq) ELSE n)

\* collection.query: the n nearest records that match the where clause, each
\* with its distance
QueryIndex(index, q, n, where) ==
    LET ids == Take(Nearest(index, {i \in DOMAIN index : Matches(index[i].metadata, where)}, q), n)
    IN [k \in 1..Len(ids) |->
           [id |-> ids[k],
            document |-> index[ids[k]].document,
            metadata |-> index[ids[k]].metadata,
            distance |-> Distance(index[ids[k]].embedding, q)]]

\* ----------------------------------------------------------- memory records
\* MemoryRecord(...) as the callers build it: the embedding and the contexts
\* are absent, and there are no topics and no keywords
NewMemory(id, text, sid, importance, t) ==
    [id |-> id,
     text |-> text,
     embedding |-> None,
     timestamp |-> t,
     session_id |-> sid,
     speaker |-> "user",
     topics |-> <<>>,
     keywords |-> <<>>,
     importance_score |-> importance,
     project_context |-> None,
     persona_context |-> None]

NoMemory == NewMemory(0, <<>>, "", 0, 0)

\* the MemoryRecord retrieve_memories builds from one result of the index
ToMemory(result) ==
    [id |-> result.id,
     text |-> result.document,
     embedding |-> None,
     timestamp |-> ParseDatetime(result.metadata.timestamp),
     session_id |-> result.metadata.session_id,
     speaker |-> result.metadata.speaker,
     topics |-> ListOfMetadata(result.metadata.topics),
     keywords |-> ListOfMetadata(result.metadata.keywords),
     importance_score |-> result.metadata.importance_score,
     project_context |-> Some(result.metadata.project_context),
     persona_context |-> Some(result.metadata.persona_context)]

\* ---------------------------------------------------------------- retrieval
\* top_k or settings.top_k_results
TopKOrDefault(top_k) ==
    IF top_k = None \/ top_k[1] = 0 THEN DefaultTopK ELSE top_k[1]

\* similarity_threshold or settings.similarity_threshold: Python's "or"
\* takes the right operand when the left one is None or 0.0
ThresholdOrDefault(similarity_threshold) ==
    IF similarity_threshold = None \/ similarity_threshold[1] = 0
    THEN DefaultSimilarityThreshold
    ELSE similarity_threshold[1]

\* the where clause of retrieve_memories: "if session_id" takes None and the
\* empty string alike as no session; a time_range, a pair, is always taken
RetrieveWhere(session_id, time_range) ==
    [session_id |-> IF session_id = None \/ session_id[1] = "" THEN None ELSE session_id,
     gte |-> IF time_range = None THEN None ELSE Some(IsoFormat(time_range[1][1])),
     lte |-> IF time_range = None THEN None ELSE Some(IsoFormat(time_range[1][2])),
     lt |-> None]

\* similarity = 1 - distance; a result below the threshold is skipped
KeepResult(result, threshold) == ~(100 - result.distance < threshold)

\* retrieve_memories: the embedding of the query, the candidates the index
\* returns, and the records built from those that pass the threshold
RetrieveMemories(cache, index, query, session_id, top_k, similarity_threshold, time_range, providerFails, queryFails) ==
    LET e == EmbedText(cache, query, providerFails)
        results == QueryIndex(index, e.vec, TopKOrDefault(top_k),
                              RetrieveWhere(session_id, time_range))
        kept == SelectSeq(results,
                          LAMBDA r : KeepResult(r, ThresholdOrDefault(similarity_threshold)))
    IN IF e.outcome = "raise" \/ queryFails
       THEN [outcome |-> "raise", embed |-> e, queried |-> e.outcome = "ok",
             candidates |-> <<>>, memories |-> <<>>]
       ELSE [outcome |-> "ok", embed |-> e, queried |-> TRUE,
             candidates |-> results,
             memories |-> [k \in 1..Len(kept) |-> ToMemory(kept[k])]]

\* ----------------------------------------------------------------- clean-up
\* the dummy query vector [0.0] * embedding_dimension
ZeroVector == [i \in DOMAIN RawEmbedding(TextA) |-> 0]

\* a selection that takes importance 0.3 as well
IdsToDeleteUpTo(index, cutoff) ==
    LET results == QueryIndex(index, ZeroVector, CleanupNResults,
                              [NoWhere EXCEPT !.lt = Some(IsoFormat(cutoff))])
    IN {results[k].id : k \in {j \in 1..Len(results) :
                                  results[j].metadata.importance_score <= CleanupImportance}}

\* the ids the clean-up selects: older than the cutoff, importance below 0.3
IdsToDelete(index, cutoff) ==
    LET results == QueryIndex(index, ZeroVector, CleanupNResults,
                              [NoWhere EXCEPT !.lt = Some(IsoFormat(cutoff))])
    IN {results[k].id : k \in {j \in 1..Len(results) :
                                  results[j].metadata.importance_score < CleanupImportance}}

\* a clean-up whose handler raises again, as the handler of store_memory does
CleanupReraises(index, t, days_to_keep, queryFails, deleteFails) ==
    LET ids == IdsToDelete(index, t - Days(days_to_keep))
    IN IF queryFails THEN [outcome |-> "raise", value |-> 0, index |-> index]
       ELSE IF ids = {} THEN [outcome |-> "ok", value |-> 0, index |-> index]
       ELSE IF deleteFails THEN [outcome |-> "raise", value |-> 0, index |-> index]
       ELSE [outcome |-> "ok", value |-> Cardinality(ids), index |-> IndexDelete(index, ids)]

\* a clean-up that returns the number of records its scan found
CleanupCountsScanned(index, t, days_to_keep, queryFails, deleteFails) ==
    LET ids == IdsToDelete(index, t - Days(days_to_keep))
        scanned == QueryIndex(index, ZeroVector, CleanupNResults,
                              [NoWhere EXCEPT !.lt = Some(IsoFormat(t - Days(days_to_keep)))])
    IN IF queryFails THEN [outcome |-> "ok", value |-> 0, index |-> index]
       ELSE IF ids = {} THEN [outcome |-> "ok", value |-> 0, index |-> index]
       ELSE IF deleteFails THEN [outcome |-> "ok", value |-> 0, index |-> index]
       ELSE [outcome |-> "ok", value |-> Len(scanned), index |-> IndexDelete(index, ids)]

\* cleanup_old_memories(days_to_keep) at time t: every exception is caught
\* and answered with 0. A delete that raises is taken to have removed nothing.
CleanupOldMemories(index, t, days_to_keep, queryFails, deleteFails) ==
    LET ids == IdsToDelete(index, t - Days(days_to_keep))
    IN IF queryFails THEN [outcome |-> "ok", value |-> 0, index |-> index]
       ELSE IF ids = {} THEN [outcome |-> "ok", value |-> 0, index |-> index]
       ELSE IF deleteFails THEN [outcome |-> "ok", value |-> 0, index |-> index]
       ELSE [outcome |-> "ok", value |-> Cardinality(ids), index |-> IndexDelete(index, ids)]

\* -------------------------------------------------------------------- state
VARIABLES
    sessions,      \* MemoryManager.sessions
    session_file,  \* the content of sessions.json
    index,         \* the records of the collection, by id
    cache,         \* EmbeddingService.cache
    now,           \* the clock datetime.now() reads
    tasks,         \* the store_memory calls in flight and where each stands
    nextId,        \* the next fresh record id (uuid4)
    ret,           \* the call that has just returned, with its arguments and result
    lastEmbed,     \* the last embed_text call of this process
    stored,        \* per session: store_memory calls that returned after updating it
    service,       \* EmbeddingService.model, and how often the model was loaded
    turn,          \* the chat turn whose two stores were issued last
    written        \* by id: the records store_memory has added, as their callers built them

vars == <<sessions, session_file, index, cache, now, tasks, nextId, ret,
          lastEmbed, stored, service, turn, written>>

IdleTask == [pc |-> "idle", memory |-> NoMemory]

\* the record a store_memory call was given, kept under its id once the call
\* has added it to the collection
Noted(w, memory) ==
    [i \in DOMAIN w \cup {memory.id} |-> IF i = memory.id THEN memory ELSE w[i]]

NothingWritten == [i \in {} |-> NoMemory]

\* The record of a chat turn: its session, the session's message_count when
\* the two stores were issued, the ids of the two records, how many of the two
\* calls have returned an id, whether both calls stood between the count and
\* the save at the same time (overlap), and whether nothing but the two calls
\* has touched the session or the records since (clean).
NoTurn == [active |-> FALSE, sid |-> "", base |-> 0, ids |-> {}, returned |-> 0,
           overlap |-> FALSE, clean |-> FALSE]

NoRet ==
    [op |-> "none", outcome |-> "none", sid |-> "", existed |-> FALSE, value |-> 0,
     fault |-> "none", threshold |-> None, top_k |-> None,
     session_id |-> None, time_range |-> None, queried |-> FALSE,
     texts |-> <<>>, vectors |-> <<>>, providerFails |-> FALSE,
     listed |-> <<>>, active_only |-> FALSE,
     candidates |-> <<>>, memories |-> <<>>,
     days |-> 0, queryFails |-> FALSE, deleteFails |-> FALSE]

Returned(op, outcome) == [NoRet EXCEPT !.op = op, !.outcome = outcome]

\* The record of an embed_text call: its text, how it ended, the vector, and
\* whether the provider was called; repeat says that the call before it, in
\* the same process, had the same text and returned a vector, which is then
\* kept as prevVec.
NoEmbed == [called |-> FALSE, text |-> <<>>, outcome |-> "none", vec |-> <<>>,
            invoked |-> FALSE, repeat |-> FALSE, prevVec |-> <<>>]

Logged(last, e, text) ==
    [called |-> TRUE, text |-> text, outcome |-> e.outcome, vec |-> e.vec,
     invoked |-> e.invoked,
     repeat |-> last.called /\ last.text = text /\ last.outcome = "ok",
     prevVec |-> IF last.called /\ last.text = text /\ last.outcome = "ok"
                 THEN last.vec ELSE <<>>]

\* the program with nothing stored, around an embedding service svc
Fresh(svc) ==
    /\ sessions = EmptyRegistry
    /\ session_file = MissingFile
    /\ index = EmptyIndex
    /\ cache = EmptyCache
    /\ now = 0
    /\ tasks = [t \in Tasks |-> IdleTask]
    /\ nextId = 1
    /\ ret = NoRet
    /\ lastEmbed = NoEmbed
    /\ stored = [s \in SessionIds |-> 0]
    /\ service = svc
    /\ turn = NoTurn
    /\ written = NothingWritten

\* the program after its startup has run MemoryManager.initialize()
Init == Fresh(StartedService)

\* the program when its modules are imported, before any initialize()
InitConstructed == Fresh(NewService)

\* ------------------------------------------------------------------ actions
\* the clock advances
Tick(limit) ==
    /\ now < limit
    /\ now' = now + 1
    /\ ret' = NoRet
    /\ UNCHANGED <<service, sessions, session_file, index, cache, tasks, nextId, lastEmbed,
                   stored, turn, written>>

\* create_session: the entry is assigned whether or not the id is present,
\* then the registry is saved
CreateSession(sid, title, description, fault) ==
    /\ sessions' = [s \in DOMAIN sessions \cup {sid} |->
                       IF s = sid THEN NewSession(sid, title, description, None, now)
                       ELSE sessions[s]]
    /\ session_file' = SaveSessions(sessions', session_file, fault)
    /\ ret' = [Returned("create", "ok") EXCEPT !.sid = sid,
                                                !.existed = sid \in DOMAIN sessions,
                                                !.fault = fault]
    /\ stored' = stored
    /\ turn' = IF turn.active /\ turn.sid = sid THEN [turn EXCEPT !.clean = FALSE] ELSE turn
    /\ UNCHANGED <<service, index, cache, now, tasks, nextId, lastEmbed, written>>

\* a store_memory call is issued: the record is built by the caller
StoreMemory(t, text, sid, importance, limit) ==
    /\ tasks[t].pc = "idle"
    /\ nextId <= limit
    /\ tasks' = [tasks EXCEPT ![t] =
                    [pc |-> "embed", memory |-> NewMemory(nextId, text, sid, importance, now)]]
    /\ nextId' = nextId + 1
    /\ ret' = NoRet
    /\ turn' = IF turn.active THEN [turn EXCEPT !.clean = FALSE] ELSE turn
    /\ UNCHANGED <<service, sessions, session_file, index, cache, now, lastEmbed, stored, written>>

\* a store_memory call is issued for a record on which the caller has set the
\* speaker, the topics, the keywords and the contexts
StoreMemoryTagged(t, text, sid, tags, limit) ==
    /\ tasks[t].pc = "idle"
    /\ nextId <= limit
    /\ tasks' = [tasks EXCEPT ![t] =
                    [pc |-> "embed",
                     memory |-> [NewMemory(nextId, text, sid, DefaultImportance, now)
                                    EXCEPT !.speaker = tags.speaker,
                                           !.topics = tags.topics,
                                           !.keywords = tags.keywords,
                                           !.project_context = tags.project_context,
                                           !.persona_context = tags.persona_context]]]
    /\ nextId' = nextId + 1
    /\ ret' = NoRet
    /\ turn' = IF turn.active THEN [turn EXCEPT !.clean = FALSE] ELSE turn
    /\ UNCHANGED <<service, sessions, session_file, index, cache, now, lastEmbed, stored, written>>

\* a store_memory call is issued for a record on which the caller has set the
\* embedding: line 84 finds it present and embed_text is not called
StoreMemoryEmbedded(t, text, sid, importance, embedding, limit) ==
    /\ tasks[t].pc = "idle"
    /\ nextId <= limit
    /\ tasks' = [tasks EXCEPT ![t] =
                    [pc |-> "add",
                     memory |-> [NewMemory(nextId, text, sid, importance, now)
                                    EXCEPT !.embedding = Some(embedding)]]]
    /\ nextId' = nextId + 1
    /\ ret' = NoRet
    /\ turn' = IF turn.active THEN [turn EXCEPT !.clean = FALSE] ELSE turn
    /\ UNCHANGED <<service, sessions, session_file, index, cache, now, lastEmbed, stored, written>>

\* store_memory, lines 84-85: the embedding is computed when absent; an
\* exception is logged and raised again
StoreEmbed(t, providerFails) ==
    /\ tasks[t].pc = "embed"
    /\ \E e \in {EmbedText(cache, tasks[t].memory.text, providerFails)} :
          /\ cache' = e.cache
          /\ lastEmbed' = Logged(lastEmbed, e, tasks[t].memory.text)
          /\ service' = LazyInitialize(service, e.invoked)
          /\ IF e.outcome = "ok"
             THEN /\ tasks' = [tasks EXCEPT ![t].pc = "add",
                                            ![t].memory.embedding = Some(e.vec)]
                  /\ ret' = NoRet
             ELSE /\ tasks' = [tasks EXCEPT ![t] = IdleTask]
                  /\ ret' = [Returned("store", "raise") EXCEPT
                                !.sid = tasks[t].memory.session_id,
                                !.value = tasks[t].memory.id,
                                !.fault = "embed_raises"]
    /\ UNCHANGED <<sessions, session_file, index, now, nextId, stored, turn, written>>

\* a store_memory whose failed add has left the record in the collection
StoreAddPartial(t, addFails) ==
    /\ tasks[t].pc = "add"
    /\ IF addFails
       THEN /\ tasks' = [tasks EXCEPT ![t] = IdleTask]
            /\ ret' = [Returned("store", "raise") EXCEPT
                          !.sid = tasks[t].memory.session_id,
                          !.value = tasks[t].memory.id,
                          !.fault = "add_raises"]
            /\ index' = IndexAdd(index, tasks[t].memory)
       ELSE /\ tasks' = [tasks EXCEPT ![t].pc = "stats"]
            /\ ret' = NoRet
            /\ index' = IndexAdd(index, tasks[t].memory)
    /\ written' = IF tasks[t].memory.id \in DOMAIN index' \ DOMAIN index
                  THEN Noted(written, tasks[t].memory) ELSE written
    /\ UNCHANGED <<service, sessions, session_file, cache, now, nextId, lastEmbed, stored, turn>>

\* store_memory, lines 88-104: the record is added to the collection; an add
\* that raises has added nothing, and the exception is logged and raised again
StoreAdd(t, addFails) ==
    /\ tasks[t].pc = "add"
    /\ IF addFails
       THEN /\ tasks' = [tasks EXCEPT ![t] = IdleTask]
            /\ ret' = [Returned("store", "raise") EXCEPT
                          !.sid = tasks[t].memory.session_id,
                          !.value = tasks[t].memory.id,
                          !.fault = "add_raises"]
            /\ index' = index
       ELSE /\ tasks' = [tasks EXCEPT ![t].pc = "stats"]
            /\ ret' = NoRet
            /\ index' = IndexAdd(index, tasks[t].memory)
    /\ written' = IF tasks[t].memory.id \in DOMAIN index' \ DOMAIN index
                  THEN Noted(written, tasks[t].memory) ELSE written
    /\ UNCHANGED <<service, sessions, session_file, cache, now, nextId, lastEmbed, stored, turn>>

\* an update that enters a session for an id the registry does not hold
StoreStatsCreates(t) ==
    /\ tasks[t].pc = "stats"
    /\ IF tasks[t].memory.session_id \in DOMAIN sessions
       THEN /\ sessions' = RecordActivity(sessions, tasks[t].memory.session_id, now)
            /\ tasks' = [tasks EXCEPT ![t].pc = "save"]
            /\ ret' = NoRet
            /\ turn' = turn
       ELSE /\ sessions' = [s \in DOMAIN sessions \cup {tasks[t].memory.session_id} |->
                               IF s \in DOMAIN sessions THEN sessions[s]
                               ELSE NewSession(s, "t1", None, None, now)]
            /\ tasks' = [tasks EXCEPT ![t] = IdleTask]
            /\ ret' = [Returned("store", "ok") EXCEPT
                          !.sid = tasks[t].memory.session_id,
                          !.value = tasks[t].memory.id]
            /\ turn' = turn
    /\ UNCHANGED <<service, session_file, index, cache, now, nextId, lastEmbed, stored, written>>

\* store_memory, line 107 and _update_session_stats, lines 274-277: a session
\* of the registry is counted up; for any other id the call returns
StoreStats(t) ==
    /\ tasks[t].pc = "stats"
    /\ IF tasks[t].memory.session_id \in DOMAIN sessions
       THEN /\ sessions' = RecordActivity(sessions, tasks[t].memory.session_id, now)
            /\ tasks' = [tasks EXCEPT ![t].pc = "save"]
            /\ ret' = NoRet
            /\ turn' = IF /\ turn.active
                          /\ tasks[t].memory.id \in turn.ids
                          /\ \E u \in Tasks \ {t} :
                                tasks[u].pc = "save" /\ tasks[u].memory.id \in turn.ids
                       THEN [turn EXCEPT !.overlap = TRUE] ELSE turn
       ELSE /\ sessions' = sessions
            /\ tasks' = [tasks EXCEPT ![t] = IdleTask]
            /\ ret' = [Returned("store", "ok") EXCEPT
                          !.sid = tasks[t].memory.session_id,
                          !.value = tasks[t].memory.id]
            /\ turn' = IF turn.active /\ tasks[t].memory.id \in turn.ids
                       THEN [turn EXCEPT !.returned = @ + 1] ELSE turn
    /\ UNCHANGED <<service, session_file, index, cache, now, nextId, lastEmbed, stored, written>>

\* _update_session_stats, line 278 and _save_sessions, then store_memory
\* returns the id
StoreSave(t, fault) ==
    /\ tasks[t].pc = "save"
    /\ session_file' = SaveSessions(sessions, session_file, fault)
    /\ tasks' = [tasks EXCEPT ![t] = IdleTask]
    /\ ret' = [Returned("store", "ok") EXCEPT
                  !.sid = tasks[t].memory.session_id,
                  !.value = tasks[t].memory.id,
                  !.existed = TRUE,
                  !.fault = fault]
    /\ stored' = [stored EXCEPT ![tasks[t].memory.session_id] = @ + 1]
    /\ turn' = IF turn.active /\ tasks[t].memory.id \in turn.ids
               THEN [turn EXCEPT !.returned = @ + 1] ELSE turn
    /\ UNCHANGED <<service, sessions, index, cache, now, nextId, lastEmbed, written>>

\* what a retrieve_memories call leaves in ret
RetrieveReturned(r, session_id, top_k, similarity_threshold, time_range) ==
    [Returned("retrieve", r.outcome) EXCEPT
        !.sid = IF session_id = None THEN "" ELSE session_id[1],
        !.session_id = session_id,
        !.time_range = time_range,
        !.queried = r.queried,
        !.top_k = top_k,
        !.threshold = similarity_threshold,
        !.candidates = r.candidates,
        !.memories = r.memories]

\* retrieve_memories: the coroutines it awaits do not suspend
Retrieve(query, session_id, top_k, similarity_threshold, time_range, providerFails, queryFails) ==
    \E r \in {RetrieveMemories(cache, index, query, session_id, top_k,
                              similarity_threshold, time_range, providerFails, queryFails)} :
       /\ cache' = r.embed.cache
       /\ lastEmbed' = Logged(lastEmbed, r.embed, query)
       /\ service' = LazyInitialize(service, r.embed.invoked)
       /\ ret' = RetrieveReturned(r, session_id, top_k, similarity_threshold, time_range)
       /\ UNCHANGED <<sessions, session_file, index, now, tasks, nextId, stored, turn, written>>

\* cleanup_old_memories
Cleanup(days_to_keep, queryFails, deleteFails) ==
    \E c \in {CleanupOldMemories(index, now, days_to_keep, queryFails, deleteFails)} :
       /\ index' = c.index
       /\ ret' = [Returned("cleanup", c.outcome) EXCEPT
                     !.value = c.value,
                     !.days = days_to_keep,
                     !.queryFails = queryFails,
                     !.deleteFails = deleteFails]
       /\ turn' = IF turn.active /\ turn.ids \cap DOMAIN index # turn.ids \cap DOMAIN c.index
                  THEN [turn EXCEPT !.clean = FALSE] ELSE turn
       /\ UNCHANGED <<service, sessions, session_file, cache, now, tasks, nextId, lastEmbed, stored, written>>

\* chat_with_assistant for a session id the request names (main.py 60-89):
\* a session that is not registered is answered 404; the memories for the
\* user input are retrieved; then the user record and the assistant record
\* are stored by two store_memory calls issued together (asyncio.gather).
\* reply is the text the response generator returned.
ChatTurn(t1, t2, sid, user_input, reply, providerFails, queryFails) ==
    /\ t1 # t2
    /\ tasks[t1].pc = "idle" /\ tasks[t2].pc = "idle"
    /\ nextId + 1 <= MaxRecords
    /\ sid \in DOMAIN sessions
    /\ \E r \in {RetrieveMemories(cache, index, user_input, Some(sid), None, None, None,
                                    providerFails, queryFails)} :
          /\ cache' = r.embed.cache
          /\ lastEmbed' = Logged(lastEmbed, r.embed, user_input)
          /\ service' = LazyInitialize(service, r.embed.invoked)
          /\ ret' = RetrieveReturned(r, Some(sid), None, None, None)
          /\ IF r.outcome = "ok"
             THEN /\ tasks' = [tasks EXCEPT
                        ![t1] = [pc |-> "embed",
                                 memory |-> NewMemory(nextId, user_input, sid,
                                                      DefaultImportance, now)],
                        ![t2] = [pc |-> "embed",
                                 memory |-> [NewMemory(nextId + 1, reply, sid,
                                                       DefaultImportance, now)
                                                EXCEPT !.speaker = "assistant"]]]
                  /\ nextId' = nextId + 2
                  /\ turn' = [active |-> TRUE, sid |-> sid,
                              base |-> sessions[sid].message_count,
                              ids |-> {nextId, nextId + 1}, returned |-> 0,
                              overlap |-> FALSE,
                              clean |-> \A t \in Tasks : tasks[t].pc = "idle"]
             ELSE UNCHANGED <<tasks, nextId, turn>>
    /\ UNCHANGED <<sessions, session_file, index, now, stored, written>>

\* The process ends and a new one starts: MemoryManager() and initialize().
\* The collection and the session file are what the old process left; the
\* registry is restored from the file; the embedding cache starts empty and
\* the calls that were in flight are gone.
Restart ==
    /\ sessions' = RestoreSessions(EmptyRegistry, session_file)
    /\ cache' = EmptyCache
    /\ tasks' = [t \in Tasks |-> IdleTask]
    /\ lastEmbed' = NoEmbed
    /\ service' = StartedService
    /\ ret' = Returned("restart", "ok")
    /\ stored' = [s \in SessionIds |->
                     IF s \in DOMAIN sessions' THEN sessions'[s].message_count ELSE 0]
    /\ turn' = NoTurn
    /\ UNCHANGED <<session_file, index, now, nextId, written>>

\* EmbeddingService.initialize() called on the service
Initialize(fails) ==
    /\ service.loads < MaxLoads
    /\ \E i \in {InitializeService(service, fails)} :
          /\ service' = i.service
          /\ ret' = Returned("initialize", i.outcome)
    /\ UNCHANGED <<sessions, session_file, index, cache, now, tasks, nextId, lastEmbed,
                   stored, turn, written>>

\* MemoryManager.initialize() called on the manager: the collection is
\* fetched, the embedding service is initialized, the sessions are restored
\* over the registry; an exception of the service is raised again before the
\* restore
InitializeManager(fails) ==
    /\ service.loads < MaxLoads
    /\ \E i \in {InitializeService(service, fails)} :
          /\ service' = i.service
          /\ ret' = Returned("initialize_manager", i.outcome)
          /\ sessions' = IF i.outcome = "ok"
                         THEN RestoreSessions(sessions, session_file)
                         ELSE sessions
    /\ stored' = [s \in SessionIds |->
                     IF s \in DOMAIN sessions' THEN sessions'[s].message_count ELSE 0]
    /\ turn' = NoTurn
    /\ UNCHANGED <<session_file, index, cache, now, tasks, nextId, lastEmbed, written>>

\* embed_text(text) called on the service
Embed(text, providerFails) ==
    \E e \in {EmbedText(cache, text, providerFails)} :
       /\ cache' = e.cache
       /\ lastEmbed' = Logged(lastEmbed, e, text)
       /\ service' = LazyInitialize(service, e.invoked)
       /\ ret' = Returned("embed", e.outcome)
       /\ UNCHANGED <<sessions, session_file, index, now, tasks, nextId, stored, turn, written>>

\* embed_batch(texts) called on the service
EmbedBatchCall(texts, providerFails) ==
    \E b \in {EmbedBatch(service, texts, providerFails)} :
       /\ ret' = [Returned("embed_batch", b.outcome) EXCEPT
                     !.texts = texts,
                     !.vectors = b.vectors,
                     !.providerFails = providerFails]
       /\ UNCHANGED <<sessions, session_file, index, cache, now, tasks, nextId, lastEmbed,
                      stored, service, turn, written>>

\* list_sessions(active_only) called on the manager
ListSessionsCall(order, active_only) ==
    /\ order \in KeyOrders(sessions)
    /\ ret' = [Returned("list", "ok") EXCEPT
                  !.listed = ListSessions(sessions, order, active_only),
                  !.active_only = active_only]
    /\ UNCHANGED <<sessions, session_file, index, cache, now, tasks, nextId, lastEmbed,
                   stored, service, turn, written>>

\* A caller clears is_active on the session object that create_session or
\* get_session returned to it; the object is the registry's own.
Deactivate(s) ==
    /\ s \in DOMAIN sessions
    /\ sessions[s].is_active
    /\ sessions' = [sessions EXCEPT ![s].is_active = FALSE]
    /\ ret' = NoRet
    /\ UNCHANGED <<session_file, index, cache, now, tasks, nextId, lastEmbed, stored,
                   service, turn, written>>

\* The session file is edited between two runs of the program: the entry of
\* one session loses its required title.
DamageFile(s) ==
    /\ session_file.kind = "json"
    /\ s \in DOMAIN session_file.doc
    /\ Loadable(session_file.doc[s])
    /\ session_file' = JsonFile([session_file.doc EXCEPT ![s] = Stripped(@)])
    /\ ret' = NoRet
    /\ UNCHANGED <<sessions, index, cache, now, tasks, nextId, lastEmbed, stored,
                   service, turn, written>>

\* ----------------------------------------------------------- specifications
\* The session registry and its file: sessions are created and created again,
\* records are stored one call at a time, the clock advances, a write of the
\* file is cut short, the process restarts.
RegistryFaults == {"ok", "dump_fails"}

Next ==
    \/ Tick(MaxRegistryNow)
    \/ \E sid \in SessionIds, title \in Titles, fault \in RegistryFaults :
          CreateSession(sid, title, None, fault)
    \/ StoreMemory(1, TextA, "s1", DefaultImportance, MaxRegistryStores)
    \/ StoreEmbed(1, FALSE)
    \/ StoreAdd(1, FALSE)
    \/ StoreStats(1)
    \/ \E fault \in RegistryFaults : StoreSave(1, fault)
    \/ Restart

Spec == Init /\ [][Next]_vars

\* The chat turn: the two stores of a turn, and a store issued on its own,
\* interleaved at every await of store_memory, while the session is created
\* again, writes of the file fail in every way, and the process restarts.
NextTurn ==
    \/ \E title \in Titles, fault \in SaveFaults : CreateSession("s1", title, None, fault)
    \/ \E t1, t2 \in Tasks :
          t1 < t2 /\ ChatTurn(t1, t2, "s1", TextA, TextB, FALSE, FALSE)
    \/ \E t \in Tasks : StoreMemory(t, TextA, "s1", DefaultImportance, MaxRecords)
    \/ \E t \in Tasks : StoreEmbed(t, FALSE)
    \/ \E t \in Tasks : StoreAdd(t, FALSE)
    \/ \E t \in Tasks : StoreStats(t)
    \/ \E t \in Tasks, fault \in SaveFaults : StoreSave(t, fault)
    \/ Restart

SpecTurn == Init /\ [][NextTurn]_vars

\* Retrieval and the embedding cache: records of several texts are stored and
\* queried with and without a threshold, with the embedding model and the
\* index failing.
Thresholds == {None, Some(0), Some(60), Some(92)}

NextQuery ==
    \/ \E text \in StoreTexts :
          StoreMemory(1, text, "s1", DefaultImportance, MaxQueryRecords)
    \/ \E providerFails \in BOOLEAN : StoreEmbed(1, providerFails)
    \/ StoreAdd(1, FALSE)
    \/ StoreStats(1)
    \/ \E query \in {TextA, TextAB}, threshold \in Thresholds :
          Retrieve(query, None, None, threshold, None, FALSE, FALSE)
    \/ \E query \in {TextB, TextBlank, TextEmpty}, providerFails \in BOOLEAN :
          Retrieve(query, None, None, None, None, providerFails, FALSE)
    \/ Retrieve(TextA, None, None, None, None, FALSE, TRUE)

SpecQuery == Init /\ [][NextQuery]_vars

\* Retention: records of several ages and importance scores are stored and
\* cleaned up while the clock advances, with the index failing.
NextCleanup ==
    \/ Tick(MaxNow)
    \/ \E imp \in {1, CleanupImportance} : StoreMemory(1, TextA, "s1", imp, MaxRecords)
    \/ StoreEmbed(1, FALSE)
    \/ StoreAdd(1, FALSE)
    \/ StoreStats(1)
    \/ \E days \in 0..1, queryFails, deleteFails \in BOOLEAN :
          Cleanup(days, queryFails, deleteFails)

SpecCleanup == Init /\ [][NextCleanup]_vars

\* Startup: the session file as earlier runs and edits left it, with every
\* kind of failed write, and the restore of a new process.
NextRestore ==
    \/ Tick(MaxRegistryNow)
    \/ \E sid \in SessionIds, fault \in SaveFaults : CreateSession(sid, "t1", None, fault)
    \/ StoreMemory(1, TextA, "s1", DefaultImportance, MaxRegistryStores)
    \/ StoreEmbed(1, FALSE)
    \/ StoreAdd(1, FALSE)
    \/ StoreStats(1)
    \/ StoreSave(1, "ok")
    \/ \E s \in SessionIds : DamageFile(s)
    \/ Restart

SpecRestore == Init /\ [][NextRestore]_vars

\* The embedding service from its construction: initialize() is called on it
\* directly, by the manager and by the first embed_text, in any order and any
\* number of times.
NextInit ==
    \/ \E fails \in BOOLEAN : Initialize(fails)
    \/ \E fails \in BOOLEAN : InitializeManager(fails)
    \/ \E text \in {TextA, TextB, TextBlank}, providerFails \in BOOLEAN :
          Embed(text, providerFails)
    \/ \E title \in Titles, fault \in RegistryFaults : CreateSession("s1", title, None, fault)
    \/ EmbedBatchCall(<<TextA, TextBlank>>, FALSE)

SpecInit == InitConstructed /\ [][NextInit]_vars

\* One store_memory call at a time, for a session of the registry and for an
\* id the registry does not hold, with a text that embeds and one that does
\* not, while the provider and the collection fail.
NextStore ==
    \/ Tick(MaxRegistryNow)
    \/ CreateSession("s1", "t1", None, "ok")
    \/ \E text \in {TextA, TextBlank}, sid \in SessionIds :
          StoreMemory(1, text, sid, DefaultImportance, MaxRecords)
    \/ \E providerFails \in BOOLEAN : StoreEmbed(1, providerFails)
    \/ \E addFails \in BOOLEAN : StoreAdd(1, addFails)
    \/ StoreStats(1)
    \/ \E fault \in RegistryFaults : StoreSave(1, fault)

SpecStore == Init /\ [][NextStore]_vars

\* Retrieval under filters: records of two session ids, one of them the
\* empty string, stored at different times and retrieved by session and by
\* time range.
FilterSessionIds == {"s1", ""}
TimeRanges == {Some(<<a, b>>) : a \in 0..MaxFilterNow, b \in 0..MaxFilterNow}

NextFilter ==
    \/ Tick(MaxFilterNow)
    \/ \E sid \in FilterSessionIds :
          StoreMemory(1, TextA, sid, DefaultImportance, MaxQueryRecords)
    \/ StoreEmbed(1, FALSE)
    \/ StoreAdd(1, FALSE)
    \/ StoreStats(1)
    \/ \E session_id \in {None} \cup {Some(sid) : sid \in FilterSessionIds},
          time_range \in {None} \cup TimeRanges :
          Retrieve(TextA, session_id, None, None, time_range, FALSE, FALSE)
    \/ Retrieve(TextA, Some("s1"), None, None, Some(<<0, MaxFilterNow>>), FALSE, TRUE)

SpecFilter == Init /\ [][NextFilter]_vars

\* Store and retrieve by the same text: sessions are created, records of two
\* texts are stored under them, the clean-up runs, and a text is retrieved
\* within a session.
NextRoundTrip ==
    \/ Tick(MaxRegistryNow)
    \/ \E sid \in FilterSessionIds :
          sid \notin DOMAIN sessions /\ CreateSession(sid, "t1", None, "ok")
    \/ \E text \in {TextA, TextB}, sid \in FilterSessionIds :
          sid \in DOMAIN sessions /\ StoreMemory(1, text, sid, 1, MaxQueryRecords)
    \/ StoreEmbed(1, FALSE)
    \/ StoreAdd(1, FALSE)
    \/ StoreStats(1)
    \/ StoreSave(1, "ok")
    \/ Cleanup(0, FALSE, FALSE)
    \/ \E query \in {TextA, TextB}, sid \in FilterSessionIds :
          Retrieve(query, Some(sid), None, None, None, FALSE, FALSE)

SpecRoundTrip == Init /\ [][NextRoundTrip]_vars

\* Batches of texts, blank and not, embedded by a started service next to
\* single embed_text calls.
BatchTexts == {TextA, TextB, TextBlank, TextEmpty}
Batches == UNION {[1..n -> BatchTexts] : n \in 0..MaxBatch}

NextBatch ==
    \/ \E texts \in Batches : EmbedBatchCall(texts, FALSE)
    \/ EmbedBatchCall(<<TextA, TextBlank>>, TRUE)
    \/ Embed(TextA, FALSE)

SpecBatch == Init /\ [][NextBatch]_vars

\* Listing: sessions are created at different times, one of them is counted
\* up by stores, another is deactivated by its caller, and they are listed.
ListSessionIds == {"s1", "s2", "s3"}

NextList ==
    \/ Tick(MaxRegistryNow)
    \/ \E sid \in ListSessionIds : sid \notin DOMAIN sessions /\ CreateSession(sid, "t1", None, "ok")
    \/ StoreMemory(1, TextA, "s1", DefaultImportance, MaxRegistryStores)
    \/ StoreEmbed(1, FALSE)
    \/ StoreAdd(1, FALSE)
    \/ StoreStats(1)
    \/ StoreSave(1, "ok")
    \/ Deactivate("s3")
    \/ \E order \in KeyOrders(sessions), active_only \in BOOLEAN :
          ListSessionsCall(order, active_only)

SpecList == Init /\ [][NextList]_vars

\* The number of results: records of three texts are stored and queried with
\* and without a top_k, under the configured threshold and a low one.
TopKs == {None, Some(0), Some(1), Some(2)}

NextTopK ==
    \/ \E text \in {TextA, TextB, TextAB} :
          StoreMemory(1, text, "s1", DefaultImportance, MaxQueryRecords)
    \/ StoreEmbed(1, FALSE)
    \/ StoreAdd(1, FALSE)
    \/ StoreStats(1)
    \/ \E query \in {TextA, TextB}, top_k \in TopKs, threshold \in {None, Some(10)} :
          Retrieve(query, None, top_k, threshold, None, FALSE, FALSE)

SpecTopK == Init /\ [][NextTopK]_vars

\* Embeddings of stored records: records are stored without an embedding and
\* with one the caller has set, of unit length or not.
EmbeddingDimension == Len(ZeroVector)

CallerEmbeddings == {<<6, 8>>, <<20, 0>>, <<0, 10>>}

NextEmbedded ==
    \/ Tick(MaxRegistryNow)
    \/ \E text \in {TextA, TextB}, sid \in SessionIds :
          StoreMemory(1, text, sid, DefaultImportance, MaxRecords)
    \/ \E embedding \in CallerEmbeddings :
          StoreMemoryEmbedded(1, TextA, "s1", DefaultImportance, embedding, MaxRecords)
    \/ \E providerFails \in BOOLEAN : StoreEmbed(1, providerFails)
    \/ \E addFails \in BOOLEAN : StoreAdd(1, addFails)
    \/ StoreStats(1)

SpecEmbedded == Init /\ [][NextEmbedded]_vars

\* The metadata of stored records: records with several speakers, topics,
\* keywords and contexts are stored and read back by queries.
TextComma == <<"a", ",", "b">>

TagSets ==
    [speaker : {"user", "assistant"},
     topics : {<<>>, <<TextA>>, <<TextA, TextB>>, <<TextComma>>, <<TextEmpty>>},
     keywords : {<<>>, <<TextB>>},
     project_context : {None, Some(TextA), Some(TextEmpty)},
     persona_context : {Some(TextB)}]

NextCodec ==
    \/ Tick(MaxRegistryNow)
    \/ \E tags \in TagSets : StoreMemoryTagged(1, TextA, "s1", tags, MaxQueryRecords)
    \/ StoreEmbed(1, FALSE)
    \/ StoreAdd(1, FALSE)
    \/ StoreStats(1)
    \/ Retrieve(TextA, None, None, None, None, FALSE, FALSE)

SpecCodec == Init /\ [][NextCodec]_vars

\* The registry under stores: two sessions are created, records are stored
\* under both of them, and one of them is deactivated by its caller.
NextFrame ==
    \/ Tick(MaxRegistryNow)
    \/ \E sid \in SessionIds, title \in Titles :
          sid \notin DOMAIN sessions /\ CreateSession(sid, title, None, "ok")
    \/ \E sid \in SessionIds :
          sid \in DOMAIN sessions
             /\ StoreMemory(1, TextA, sid, DefaultImportance, MaxRegistryStores)
    \/ StoreEmbed(1, FALSE)
    \/ StoreAdd(1, FALSE)
    \/ StoreStats(1)
    \/ \E fault \in RegistryFaults : StoreSave(1, fault)
    \/ Deactivate("s1")

SpecFrame == Init /\ [][NextFrame]_vars

\* ------------------------------------------------------------------- claims
\* the store_memory calls that have counted a session up and not yet returned
InFlight(s) == {t \in Tasks : tasks[t].pc = "save" /\ tasks[t].memory.session_id = s}

\* C1: after N store_memory calls that referenced a session of the registry
\* have returned an id, that session's message_count is N.
C1_CountEqualsStores ==
    \A s \in DOMAIN sessions :
        InFlight(s) = {} => sessions[s].message_count = stored[s]

\* C2: a create_session with an id the registry already holds ends with a
\* DuplicateSession error, and the registry and the session file are as they
\* were before the call.
C2_DuplicateCreateFails ==
    [][(ret'.op = "create" /\ ret'.existed) =>
          /\ ret'.outcome = "raise"
          /\ sessions' = sessions
          /\ session_file' = session_file]_vars

\* C3: within one process no step takes a session out of the registry or
\* lowers its message_count.
C3_CountNeverDecreases ==
    [][ret'.op # "restart" =>
          \A s \in DOMAIN sessions :
              /\ s \in DOMAIN sessions'
              /\ sessions'[s].message_count >= sessions[s].message_count]_vars

\* the message_count the session file shows for a session, -1 when it shows none
FileCount(s) ==
    IF session_file.kind = "json" /\ s \in DOMAIN session_file.doc
    THEN session_file.doc[s].message_count
    ELSE -1

\* both store_memory calls of a chat turn have returned, and nothing else has
\* touched the turn's session or its records
TurnDone == turn.active /\ turn.clean /\ turn.returned = StoresPerTurn

\* C4 as stated: once both stores of a chat turn have returned, both records
\* are in the index, the session's message_count has grown by 2, and the
\* session file shows that count.
C4_TurnCountedAndOnDisk ==
    TurnDone =>
        /\ turn.ids \subseteq DOMAIN index
        /\ sessions[turn.sid].message_count = turn.base + StoresPerTurn
        /\ FileCount(turn.sid) = turn.base + StoresPerTurn

\* C4, amended: once both stores of a chat turn have returned, however the two
\* were interleaved, both records are in the index and the session's
\* message_count has grown by 2; the session file shows that count when the
\* write made by the call that returned last did not fail.
C4_TurnCounted ==
    TurnDone =>
        /\ turn.ids \subseteq DOMAIN index
        /\ sessions[turn.sid].message_count = turn.base + StoresPerTurn
        /\ (ret.fault = "ok" => FileCount(turn.sid) = turn.base + StoresPerTurn)

C4_Witness ==
    /\ TurnDone
    /\ turn.overlap
    /\ turn.base > 0
    /\ ret.op = "store" /\ ret.fault = "ok"
    /\ FileCount(turn.sid) = turn.base + StoresPerTurn

\* C5: when the caller gave a threshold, a candidate the index returned is in
\* the result exactly when its similarity, 1 - distance, is at least that
\* threshold.
C5_CallerThresholdDecides ==
    (ret.op = "retrieve" /\ ret.outcome = "ok" /\ ret.threshold # None) =>
        \A k \in 1..Len(ret.candidates) :
            (\E m \in 1..Len(ret.memories) : ret.memories[m].id = ret.candidates[k].id)
                <=> (100 - ret.candidates[k].distance >= ret.threshold[1])

\* C6: every record a step removes from the index is removed by the clean-up,
\* is older than the clean-up's cutoff, and has importance below 0.3.
C6_CleanupDeletesOnlyOldAndLow ==
    [][\A i \in DOMAIN index \ DOMAIN index' :
          /\ ret'.op = "cleanup"
          /\ ParseDatetime(index[i].metadata.timestamp) < now - Days(ret'.days)
          /\ index[i].metadata.importance_score < 3]_vars

\* a clean-up has deleted a record, and has left both a record of low
\* importance that is not older than the cutoff and a record older than the
\* cutoff whose importance is 0.3
C6_Witness ==
    /\ ret.op = "cleanup" /\ ret.value > 0
    /\ \E i \in DOMAIN index :
          /\ index[i].metadata.importance_score < 3
          /\ ParseDatetime(index[i].metadata.timestamp) = now - Days(ret.days)
    /\ \E i \in DOMAIN index :
          /\ index[i].metadata.importance_score = 3
          /\ ParseDatetime(index[i].metadata.timestamp) < now - Days(ret.days)

\* C7: a clean-up during which the query or the delete of the index raised
\* returns 0 to its caller and raises nothing.
C7_CleanupFailureReturnsZero ==
    (ret.op = "cleanup" /\ (ret.queryFails \/ ret.deleteFails)) =>
        ret.outcome = "ok" /\ ret.value = 0

\* the delete was called with ids and raised
C7_Witness ==
    /\ ret.op = "cleanup" /\ ret.deleteFails /\ ~ret.queryFails
    /\ IdsToDelete(index, now - Days(ret.days)) # {}
    /\ ret.outcome = "ok" /\ ret.value = 0

\* C8 as stated: the second of two consecutive embed_text calls with one text
\* returns the vector of the first and does not call the provider.
C8_SecondCallFromCache ==
    (lastEmbed.repeat /\ lastEmbed.outcome = "ok") =>
        lastEmbed.vec = lastEmbed.prevVec /\ ~lastEmbed.invoked

\* C8, amended: the second of two consecutive embed_text calls with one text
\* returns the vector of the first without calling the provider when the text
\* is in the cache once the first has returned; it is not there only when the
\* first call found the cache full of other texts, and then the second call
\* calls the provider again.
C8_SecondCallFromCacheUnlessFull ==
    (lastEmbed.repeat /\ lastEmbed.outcome = "ok") =>
        IF Hash(lastEmbed.text) \in DOMAIN cache
        THEN lastEmbed.vec = lastEmbed.prevVec /\ ~lastEmbed.invoked
        ELSE lastEmbed.invoked /\ Cardinality(DOMAIN cache) >= MaxCacheSize

\* a second call answered from a cache that holds max_cache_size entries
C8_Witness ==
    /\ lastEmbed.repeat /\ lastEmbed.outcome = "ok"
    /\ ~lastEmbed.invoked
    /\ lastEmbed.vec # RawEmbedding(lastEmbed.text)
    /\ Cardinality(DOMAIN cache) = MaxCacheSize

\* a create_session, or a store_memory for a session of the registry, has
\* just returned to its caller
Written ==
    \/ ret.op = "create" /\ ret.outcome = "ok"
    \/ ret.op = "store" /\ ret.outcome = "ok" /\ ret.existed

\* C9 as stated: when a create_session or a store_memory for a session of the
\* registry has returned, the session file restores to the registry in memory.
C9_WriteThrough ==
    Written =>
        /\ session_file.kind = "json"
        /\ RestoreSessions(EmptyRegistry, session_file) = sessions

\* C9, amended: when a create_session or a store_memory for a session of the
\* registry has returned and its write of the session file did not fail, the
\* session file restores to the registry in memory.
C9_WriteThroughWhenWritten ==
    (Written /\ ret.fault = "ok") =>
        /\ session_file.kind = "json"
        /\ RestoreSessions(EmptyRegistry, session_file) = sessions

\* a store has returned while another call stands between the count and its
\* own save: the file already shows both counts
C9_Witness ==
    /\ ret.op = "store" /\ ret.existed /\ ret.fault = "ok"
    /\ InFlight(ret.sid) # {}
    /\ FileCount(ret.sid) = sessions[ret.sid].message_count
    /\ FileCount(ret.sid) >= 2

\* C10: the registry saved by _save_sessions and loaded by _restore_sessions
\* into a fresh manager is the registry that was saved, field for field.
C10_SaveRestoreRoundTrip ==
    RestoreSessions(EmptyRegistry, SaveSessions(sessions, session_file, "ok")) = sessions

\* a process has started from a file that two sessions were saved to, one of
\* them counted up at a time with a sub-second part
C10_Witness ==
    /\ ret.op = "restart"
    /\ session_file = SaveSessions(sessions, session_file, "ok")
    /\ Cardinality(DOMAIN sessions) = 2
    /\ \E s \in DOMAIN sessions :
          /\ sessions[s].message_count > 0
          /\ sessions[s].last_activity % TicksPerSec # 0
          /\ sessions[s].last_activity # sessions[s].created_at

\* the session file cannot be restored: it is missing, it is not a JSON
\* document, or one of its entries is not a session
Unloadable(file) ==
    \/ file.kind # "json"
    \/ \E s \in DOMAIN file.doc : ~Loadable(file.doc[s])

\* C11: a process that starts on a session file that is missing, cannot be
\* parsed, or holds an entry that is not a session, starts without an error
\* and with an empty registry.
C11_FailedRestoreStartsEmpty ==
    (ret.op = "restart" /\ Unloadable(session_file)) =>
        ret.outcome = "ok" /\ sessions = EmptyRegistry

\* a process has started on a file with one entry that loads and one that
\* does not
C11_Witness ==
    /\ ret.op = "restart"
    /\ session_file.kind = "json"
    /\ \E s \in DOMAIN session_file.doc : Loadable(session_file.doc[s])
    /\ \E s \in DOMAIN session_file.doc : ~Loadable(session_file.doc[s])
    /\ sessions = EmptyRegistry

\* C12: one embedding service loads its model at most once, however often
\* and by whichever path initialize is called on it.
C12_ModelLoadedOnce == service.loads <= 1

\* C13: every record of the index has an embedding; and a store_memory call
\* whose embedding or whose add fails raises to its caller, having left the
\* index, the registry and the session file as they were at each of its steps,
\* so that no record with its id is in the index.
C13_StoreAllOrNothing ==
    /\ [](\A i \in DOMAIN index : Len(index[i].embedding) = Len(ZeroVector))
    /\ [][ret'.op # "restart" =>
            \A t \in Tasks :
                (/\ tasks[t].pc \in {"embed", "add"}
                 /\ tasks'[t] # tasks[t]
                 /\ tasks'[t].pc \in {"add", "idle"}) =>
                    /\ sessions' = sessions
                    /\ session_file' = session_file
                    /\ index' = index
                    /\ tasks'[t].pc = "idle" =>
                          /\ ret'.op = "store" /\ ret'.outcome = "raise"
                          /\ ret'.value = tasks[t].memory.id
                          /\ ret'.value \notin DOMAIN index']_vars

\* the add of a store for a session that has been counted and saved before
\* has raised
C13_Witness ==
    /\ ret.op = "store" /\ ret.outcome = "raise" /\ ret.fault = "add_raises"
    /\ ret.value \notin DOMAIN index
    /\ index # EmptyIndex
    /\ ret.sid \in DOMAIN sessions
    /\ sessions[ret.sid].message_count > 0
    /\ FileCount(ret.sid) = sessions[ret.sid].message_count

\* C14: every record a retrieve_memories with a session_id returns has that
\* session_id; every record one with a time_range returns has its timestamp
\* within the range, bounds included; one with neither has every record of
\* the index among its candidates.
C14_FiltersRestrict ==
    (ret.op = "retrieve" /\ ret.outcome = "ok") =>
        /\ \A m \in 1..Len(ret.memories) :
              /\ ret.session_id # None => ret.memories[m].session_id = ret.session_id[1]
              /\ ret.time_range # None =>
                    /\ ret.time_range[1][1] <= ret.memories[m].timestamp
                    /\ ret.memories[m].timestamp <= ret.time_range[1][2]
        /\ (ret.session_id = None /\ ret.time_range = None) =>
              {ret.candidates[k].id : k \in 1..Len(ret.candidates)} = DOMAIN index

\* the records of the index stored under session s
StoredUnder(s) == {i \in DOMAIN index : index[i].metadata.session_id = s}

\* C15: a retrieve_memories of text x within a created session s returns
\* every record of text x that is stored under s and still in the index, and
\* returns that record alone when it is the only record stored under s.
C15_StoredRecordRetrieved ==
    (/\ ret.op = "retrieve" /\ ret.outcome = "ok"
     /\ ret.session_id # None
     /\ ret.session_id[1] \in DOMAIN sessions) =>
        \A i \in StoredUnder(ret.session_id[1]) :
            index[i].document = lastEmbed.text =>
                /\ \E m \in 1..Len(ret.memories) : ret.memories[m].id = i
                /\ StoredUnder(ret.session_id[1]) = {i} => Len(ret.memories) = 1

\* C16: a retrieve_memories whose query is empty or whitespace only raises,
\* without a call of the embedding provider, without a query of the index,
\* and with the embedding cache and the index as they were.
C16_BlankQueryRejected ==
    [][(ret'.op = "retrieve" /\ Strip(lastEmbed'.text) = <<>>) =>
          /\ ret'.outcome = "raise"
          /\ ~lastEmbed'.invoked
          /\ ~ret'.queried
          /\ cache' = cache
          /\ index' = index]_vars

\* a whitespace-only query has been rejected while the index holds records
\* and the cache holds vectors
C16_Witness ==
    /\ ret.op = "retrieve" /\ ret.outcome = "raise"
    /\ lastEmbed.text = TextBlank
    /\ ~lastEmbed.invoked /\ ~ret.queried
    /\ index # EmptyIndex
    /\ cache # EmptyCache

\* the positions of a batch whose text has a character that is not a space
NonBlankAt(texts) ==
    {p \in 1..Len(texts) : \E c \in 1..Len(texts[p]) : texts[p][c] # " "}

\* the position of the k-th text of a batch that is not blank
KthNonBlank(texts, k) ==
    CHOOSE p \in NonBlankAt(texts) : Cardinality({q \in NonBlankAt(texts) : q <= p}) = k

\* C17: an embed_batch whose provider does not fail returns without an error
\* one vector for each entry that is not blank, the k-th vector being the one
\* embed_text gives the k-th such entry; blank entries add nothing.
C17_BatchKeepsNonBlankInOrder ==
    (ret.op = "embed_batch" /\ ~ret.providerFails) =>
        /\ ret.outcome = "ok"
        /\ Len(ret.vectors) = Cardinality(NonBlankAt(ret.texts))
        /\ \A k \in 1..Len(ret.vectors) :
              ret.vectors[k] = EmbedText(EmptyCache, ret.texts[KthNonBlank(ret.texts, k)], FALSE).vec

\* a batch with blank entries before, between and after two different texts
C17_Witness ==
    /\ ret.op = "embed_batch" /\ ret.outcome = "ok"
    /\ ret.texts = <<TextBlank, TextB, TextA>>
    /\ ret.vectors = <<EmbedText(EmptyCache, TextB, FALSE).vec, EmbedText(EmptyCache, TextA, FALSE).vec>>
    /\ ret.vectors[1] # ret.vectors[2]

\* the sessions list_sessions is to return
Listable(active_only) ==
    {s \in DOMAIN sessions : ~active_only \/ sessions[s].is_active}

\* C18: list_sessions returns each session of the registry once, only the
\* active ones when active_only, none of them before a session of more
\* recent last_activity; and the call leaves the registry and its file as
\* they were.
C18_ListSortedAndFiltered ==
    /\ [](ret.op = "list" =>
            /\ Len(ret.listed) = Cardinality(Listable(ret.active_only))
            /\ {ret.listed[k].session_id : k \in 1..Len(ret.listed)} = Listable(ret.active_only)
            /\ \A k \in 1..Len(ret.listed) :
                  ret.listed[k] = sessions[ret.listed[k].session_id]
            /\ \A j, k \in 1..Len(ret.listed) :
                  j < k => ret.listed[j].last_activity >= ret.listed[k].last_activity)
    /\ [][ret'.op = "list" => sessions' = sessions /\ session_file' = session_file]_vars

\* a listing of the active sessions has left out an inactive session that is
\* as recent as the first one listed, and has put the more recent of the two
\* others, the one a store has touched, first
C18_Witness ==
    /\ ret.op = "list"
    /\ ret.active_only
    /\ Len(ret.listed) = 2
    /\ ret.listed[1].last_activity > ret.listed[2].last_activity
    /\ ret.listed[1].last_activity > ret.listed[1].created_at
    /\ \E s \in DOMAIN sessions :
          /\ ~sessions[s].is_active
          /\ sessions[s].last_activity >= ret.listed[1].last_activity

\* memories is built from candidates by leaving some out: the records kept
\* stand in the order of the candidates, none of them twice
KeptInOrder(memories, candidates) ==
    \E f \in [1..Len(memories) -> 1..Len(candidates)] :
       /\ \A j, k \in 1..Len(memories) : j < k => f[j] < f[k]
       /\ \A k \in 1..Len(memories) : memories[k] = ToMemory(candidates[f[k]])

\* C19: what retrieve_memories returns is the candidates of the index with
\* some left out, in the order of the index and none twice, and when the
\* caller gave a top_k it is at most top_k records.
C19_SubsequenceAtMostTopK ==
    (ret.op = "retrieve" /\ ret.outcome = "ok") =>
        /\ KeptInOrder(ret.memories, ret.candidates)
        /\ ret.top_k # None => Len(ret.memories) <= ret.top_k[1]

\* the step is an embed_text call, made by retrieve_memories or by the
\* store_memory of a task
EmbedStep ==
    \/ ret'.op = "retrieve"
    \/ \E t \in Tasks : tasks[t].pc = "embed" /\ tasks'[t].pc # "embed"

\* C20: the embedding cache never holds more than max_cache_size entries; no
\* step takes an entry out of it or changes the vector of one; and an
\* embed_text of a text that is not in a full cache calls the provider,
\* returns the normalized vector unless the provider raises, and leaves the
\* cache as it was.
C20_CacheBoundedAndStable ==
    /\ [](Cardinality(DOMAIN cache) <= MaxCacheSize)
    /\ [][/\ \A k \in DOMAIN cache : k \in DOMAIN cache' /\ cache'[k] = cache[k]
          /\ (/\ EmbedStep
              /\ Cardinality(DOMAIN cache) >= MaxCacheSize
              /\ Strip(lastEmbed'.text) # <<>>
              /\ Hash(lastEmbed'.text) \notin DOMAIN cache)
             => /\ cache' = cache
                /\ lastEmbed'.invoked
                /\ lastEmbed'.outcome = "ok" =>
                      lastEmbed'.vec = NormalizeVector(RawEmbedding(lastEmbed'.text))]_vars

\* an embed_text has returned the vector of a text that a cache of
\* max_cache_size entries does not hold
C20_Witness ==
    /\ Cardinality(DOMAIN cache) = MaxCacheSize
    /\ lastEmbed.called /\ lastEmbed.outcome = "ok" /\ lastEmbed.invoked
    /\ Hash(lastEmbed.text) \notin DOMAIN cache
    /\ lastEmbed.vec = NormalizeVector(RawEmbedding(lastEmbed.text))

\* C21: every record of the index has an embedding of embedding_dimension
\* components and of L2 norm 1 (10 in tenths, so the squares sum to 100).
C21_StoredEmbeddingsNormalized ==
    \A i \in DOMAIN index :
       /\ Len(index[i].embedding) = EmbeddingDimension
       /\ SumSq(index[i].embedding) = 100

\* C22: every record retrieve_memories returns is, but for the embedding,
\* the record that was given to store_memory under that id: same id, text,
\* session_id, speaker, timestamp, importance_score, topics, keywords,
\* project_context and persona_context.
C22_MetadataRoundTrip ==
    (ret.op = "retrieve" /\ ret.outcome = "ok") =>
        \A k \in 1..Len(ret.memories) :
           /\ ret.memories[k].id \in DOMAIN written
           /\ ret.memories[k] = [written[ret.memories[k].id] EXCEPT !.embedding = None]

\* the records of an index that are older than a cutoff and of importance
\* below 0.3
Due(idx, cutoff) ==
    {i \in DOMAIN idx : /\ ParseDatetime(idx[i].metadata.timestamp) < cutoff
                        /\ idx[i].metadata.importance_score < 3}

\* C23: a clean-up without a failure removes exactly the records that are
\* older than its cutoff and of importance below 0.3, leaves the others as
\* they are, and returns the number of records it removed; when it has
\* returned, no such record is left and the same clean-up called again at
\* once returns 0 and removes nothing.
C23_CleanupRemovesAllAndCounts ==
    /\ []((ret.op = "cleanup" /\ ~ret.queryFails /\ ~ret.deleteFails) =>
             /\ Due(index, now - Days(ret.days)) = {}
             /\ CleanupOldMemories(index, now, ret.days, FALSE, FALSE)
                   = [outcome |-> "ok", value |-> 0, index |-> index])
    /\ [][(ret'.op = "cleanup" /\ ~ret'.queryFails /\ ~ret'.deleteFails) =>
             /\ DOMAIN index' = DOMAIN index \ Due(index, now - Days(ret'.days))
             /\ \A i \in DOMAIN index' : index'[i] = index[i]
             /\ ret'.outcome = "ok"
             /\ ret'.value = Cardinality(DOMAIN index \ DOMAIN index')]_vars

\* a clean-up has removed two records at once, returned 2, and left the
\* third, which is older than the cutoff and of importance 0.3
C23_Witness ==
    /\ ret.op = "cleanup" /\ ~ret.queryFails /\ ~ret.deleteFails
    /\ ret.value = 2
    /\ \E i \in DOMAIN index :
          /\ DOMAIN index = {i}
          /\ index[i].metadata.importance_score = 3
          /\ ParseDatetime(index[i].metadata.timestamp) < now - Days(ret.days)

\* C24: the step of a store_memory call that counts the record under a
\* session of the registry adds 1 to that session's message_count, sets its
\* last_activity to the time of the step and leaves its other fields, the
\* other sessions and the set of sessions as they were; the other steps of
\* the call leave the registry as it was.
C24_StoreTouchesCountAndActivityOnly ==
    [][\A t \in Tasks :
          /\ (tasks[t].pc = "stats" /\ tasks'[t].pc = "save") =>
                /\ DOMAIN sessions' = DOMAIN sessions
                /\ \A s \in DOMAIN sessions :
                      sessions'[s] =
                         IF s = tasks[t].memory.session_id
                         THEN [sessions[s] EXCEPT !.message_count = @ + 1,
                                                  !.last_activity = now]
                         ELSE sessions[s]
          /\ (tasks[t].pc \in {"embed", "add", "save"} /\ tasks'[t] # tasks[t]) =>
                sessions' = sessions]_vars

\* a store under an inactive session has returned: the session is counted,
\* more recent than its creation and still inactive, beside another session
C24_Witness ==
    /\ ret.op = "store" /\ ret.outcome = "ok" /\ ret.existed
    /\ ret.sid \in DOMAIN sessions
    /\ ~sessions[ret.sid].is_active
    /\ sessions[ret.sid].message_count > 0
    /\ sessions[ret.sid].last_activity > sessions[ret.sid].created_at
    /\ \E s \in DOMAIN sessions : s # ret.sid /\ sessions[s].message_count > 0

\* C25: a store_memory call for a session id the registry does not hold
\* leaves the registry and the session file as they were at each of its
\* steps, and at its last step returns the id of the record, which is then in
\* the index with the text of the call.
C25_UnknownSessionStoresRecordOnly ==
    [][\A t \in Tasks :
          (/\ tasks[t].pc \in {"embed", "add", "stats"}
           /\ tasks'[t] # tasks[t]
           /\ tasks[t].memory.session_id \notin DOMAIN sessions) =>
              /\ sessions' = sessions
              /\ session_file' = session_file
              /\ stored' = stored
              /\ tasks[t].pc = "stats" =>
                    /\ tasks'[t].pc = "idle"
                    /\ ret'.op = "store" /\ ret'.outcome = "ok"
                    /\ ret'.value = tasks[t].memory.id
                    /\ ret'.value \in DOMAIN index'
                    /\ index'[ret'.value].document = tasks[t].memory.text
                    /\ index'[ret'.value].metadata.session_id = tasks[t].memory.session_id]_vars

\* a store for an id the registry does not hold has returned the id of a
\* record of the index, beside a session that is in the registry and in the
\* session file with a count
C25_Witness ==
    /\ ret.op = "store" /\ ret.outcome = "ok" /\ ~ret.existed
    /\ ret.sid \notin DOMAIN sessions
    /\ ret.value \in DOMAIN index
    /\ index[ret.value].metadata.session_id = ret.sid
    /\ \E s \in DOMAIN sessions :
          sessions[s].message_count > 0 /\ FileCount(s) = sessions[s].message_count
====
